---- MODULE Spec2Model ----
(***************************************************************************)
(* Model of src/src/Chapter05.jsx: the singleton Pyodide loader            *)
(* (loadPyodideOnce), the code-runner hook (usePyRunner: ensureReady and   *)
(* run, with the Python header/footer it wraps around the guest source),   *)
(* the CodeBlock component that drives it, and the clipboard utility       *)
(* (safeCopyText) with the CopyButton that drives it.                      *)
(*                                                                         *)
(* JavaScript is single threaded: one action is one run-to-completion      *)
(* piece of code between two suspension points (await).                    *)
(***************************************************************************)
EXTENDS Integers, Sequences, FiniteSets, TLC

\* Number of CodeBlock components on the page (each has its own usePyRunner).
NBlocks == 2

\* The document is followed until this many scaffolding elements have leaked.
MaxLeaked == 2

Blocks == 1..NBlocks

\* Number of CopyButton components followed (they share the document).
NButtons == 1

\* A guest source is followed for this many statements, character by character.
MaxOps == 4

Buttons == 1..NButtons

\* Guest sources, as the sequence of their effects on the runtime:
\*   "print"  print(...)           "draw"   plt.plot(...) on the current figure
\*   "show"   plt.show()           "await"  a top-level await (runPythonAsync allows it)
\*   "raise"  an uncaught Python exception
Programs ==
  { <<"print", "draw", "show">>,
    <<"print", "draw", "show", "raise">>,
    <<"draw">>,
    <<"print", "await", "print">> }

NoResult == [images |-> <<>>, text |-> <<>>, error |-> ""]

VARIABLES
  \* ---- module-level loader state (lines 70-101) ----
  pyodidePromise,   \* _pyodidePromise: "null" | "pending" | "fulfilled" | "rejected"
  promiseValue,     \* what the promise settled with: a handle id, or an error message
  loaderPc,         \* the await the async IIFE is suspended at
  hasLoadPyodide,   \* window.loadPyodide is present
  fetchCount,       \* how many times the bootstrap <script> was appended
  initCount,        \* how many times window.loadPyodide(...) was called
  \* ---- the Python runtime's interpreter state (header/footer, lines 133-195) ----
  rt,
  \* ---- per CodeBlock: usePyRunner state and CodeBlock state ----
  code,             \* the `code` prop
  status,           \* useState("idle")
  errMsg,           \* useState("")
  pyRef,            \* pyRef.current: 0 is null, otherwise the handle id
  running,          \* CodeBlock's useState(false)
  out,              \* CodeBlock's useState({images: [], text: ""})
  hasRun,           \* CodeBlock's useState(false)
  pc,               \* where the block's pending async call is suspended
  gpc,              \* position in the guest source: 0 = header not started yet
  caller,           \* who called ensureReady: "ui" (Load runtime button) or "run"
  \* ---- observations of the calls (history, not program state) ----
  settled,          \* what the block's last `await loadPyodideOnce()` produced
  ensureThrew,      \* the block's last ensureReady() call rejected to its caller
  runOutcome,       \* the block's last run() call: "none" | "returned" | "threw"
  captured,         \* _stdout_buffer's contents when the block's last guest run raised
  isolated,         \* no other run() call overlapped the block's last run() call
  \* ---- clipboard: host, document and CopyButton state (lines 21-65, 247-263) ----
  hostClipboard,    \* navigator.clipboard && window.isSecureContext
  hostExecCommand,  \* document.execCommand is present
  dom,              \* scaffolding elements attached to document.body
  selection,        \* what the document selection holds
  copyPc,           \* per CopyButton: where handleCopy is suspended
  attempts,         \* per CopyButton: strategies attempted by the last copy, with outcomes
  copyRes,          \* per CopyButton: what the last safeCopyText call returned
  copyThrew,        \* per CopyButton: the last safeCopyText call rejected
  btnState,         \* per CopyButton: useState({ok, method, error})
  busy,             \* per CopyButton: useState(false)
  timer,            \* per CopyButton: a setTimeout of line 257 is pending
  \* ---- one run seen character by character (lines 174-212) ----
  gsrc,             \* the statements of the guest source that have run, in order
  stdoutBuffer,     \* the characters written to _stdout_buffer so far
  parsed,           \* what lines 202-210 make of the buffer: images and text
  ppc               \* "writing" while the source runs, "parsed" after line 210

loaderVars == <<pyodidePromise, promiseValue, loaderPc, hasLoadPyodide, fetchCount, initCount>>
blockVars == <<code, status, errMsg, pyRef, running, out, hasRun, pc, gpc, caller>>
histVars == <<settled, ensureThrew, runOutcome, captured, isolated>>
copyVars == <<hostClipboard, hostExecCommand, dom, selection, copyPc, attempts, copyRes,
              copyThrew, btnState, busy, timer>>
parseVars == <<gsrc, stdoutBuffer, parsed, ppc>>
vars == <<loaderVars, rt, blockVars, histVars, copyVars, parseVars>>

NoValue == [handle |-> 0, error |-> ""]

(***************************************************************************)
(* Pyodide loader (singleton), lines 70-101                                *)
(***************************************************************************)

\* Mutant of Memoized: the memo check of line 72 is missing.
MemoizedNever == FALSE

\* Mutant of Memoized: a rejected promise is not kept.
MemoizedUnlessRejected == pyodidePromise \notin {"null", "rejected"}

\* line 72: if (_pyodidePromise) return _pyodidePromise;
Memoized == pyodidePromise # "null"

\* Mutant of startInit: the bootstrap script is appended whether or not
\* window.loadPyodide is present.
startInitAlwaysFetch ==
  /\ pyodidePromise' = "pending"
  /\ promiseValue' = NoValue
  /\ fetchCount' = fetchCount + 1
  /\ loaderPc' = "fetch"
  /\ UNCHANGED <<initCount, hasLoadPyodide>>

\* lines 73-83, up to the first await of the async IIFE: the bootstrap script
\* is appended only if window.loadPyodide is missing; otherwise
\* window.loadPyodide(...) is called at once.
startInit ==
  /\ pyodidePromise' = "pending"
  /\ promiseValue' = NoValue
  /\ IF ~hasLoadPyodide
       THEN /\ fetchCount' = fetchCount + 1
            /\ loaderPc' = "fetch"
            /\ UNCHANGED initCount
       ELSE /\ initCount' = initCount + 1
            /\ loaderPc' = "init"
            /\ UNCHANGED fetchCount
  /\ UNCHANGED hasLoadPyodide

\* lines 71-101, the synchronous part of one call
loadPyodideOnce ==
  IF Memoized THEN UNCHANGED loaderVars ELSE startInit

\* the async IIFE throws: the memoized promise rejects (and stays memoized)
loaderReject(msg) ==
  /\ pyodidePromise' = "rejected"
  /\ promiseValue' = [handle |-> 0, error |-> msg]
  /\ loaderPc' = "settled"

\* line 98: return pyodide
loaderResolve ==
  /\ pyodidePromise' = "fulfilled"
  /\ promiseValue' = [handle |-> initCount, error |-> ""]
  /\ loaderPc' = "settled"

\* lines 75-83: s.onload / s.onerror, then window.loadPyodide(...)
FetchSettles(ok) ==
  /\ loaderPc = "fetch"
  /\ IF ok
       THEN /\ hasLoadPyodide' = TRUE
            /\ initCount' = initCount + 1
            /\ loaderPc' = "init"
            /\ UNCHANGED <<pyodidePromise, promiseValue>>
       ELSE /\ loaderReject("bootstrap fetch failed")
            /\ UNCHANGED <<hasLoadPyodide, initCount>>
  /\ UNCHANGED <<fetchCount, rt, blockVars, histVars, copyVars, parseVars>>

\* lines 83-89: window.loadPyodide settles, then pyodide.loadPackage([...])
InitSettles(ok) ==
  /\ loaderPc = "init"
  /\ IF ok
       THEN /\ loaderPc' = "packages"
            /\ UNCHANGED <<pyodidePromise, promiseValue>>
       ELSE loaderReject("runtime init failed")
  /\ UNCHANGED <<hasLoadPyodide, fetchCount, initCount, rt, blockVars, histVars, copyVars, parseVars>>

\* lines 89-92: loadPackage settles, then "import seaborn as sns"
PackagesSettle(ok) ==
  /\ loaderPc = "packages"
  /\ IF ok
       THEN /\ loaderPc' = "seaborn"
            /\ UNCHANGED <<pyodidePromise, promiseValue>>
       ELSE loaderReject("loadPackage failed")
  /\ UNCHANGED <<hasLoadPyodide, fetchCount, initCount, rt, blockVars, histVars, copyVars, parseVars>>

\* lines 91-98: the import settles; on failure the catch installs via micropip
SeabornSettles(ok) ==
  /\ loaderPc = "seaborn"
  /\ IF ok
       THEN loaderResolve
       ELSE /\ loaderPc' = "install"
            /\ UNCHANGED <<pyodidePromise, promiseValue>>
  /\ UNCHANGED <<hasLoadPyodide, fetchCount, initCount, rt, blockVars, histVars, copyVars, parseVars>>

\* lines 94-98: the micropip install settles
InstallSettles(ok) ==
  /\ loaderPc = "install"
  /\ IF ok THEN loaderResolve ELSE loaderReject("seaborn install failed")
  /\ UNCHANGED <<hasLoadPyodide, fetchCount, initCount, rt, blockVars, histVars, copyVars, parseVars>>

(***************************************************************************)
(* The Python side of run: header, guest source, footer (lines 133-195)    *)
(*                                                                         *)
(* rt.sys    what sys.stdout refers to: "orig" (the stream Pyodide was     *)
(*           initialised with), "cur" (the StringIO the global             *)
(*           _stdout_buffer refers to) or "stale" (a StringIO of an        *)
(*           earlier header, no longer reachable through _stdout_buffer)   *)
(* rt.saved  what the global _sys_stdout refers to                         *)
(* rt.buf    the lines written to the StringIO _stdout_buffer refers to    *)
(* rt.show   what plt.show refers to: "orig" or "capture" (_capture_show)  *)
(* rt.defShow what the global _def_show refers to                          *)
(* rt.fig    the artists on pyplot's current figure, by the block that     *)
(*           drew them                                                     *)
(* The globals are shared by all runs: runPythonAsync is called without a  *)
(* globals option (line 200).                                              *)
(***************************************************************************)
InitRuntime ==
  [sys |-> "orig", saved |-> "orig", buf |-> <<>>, show |-> "orig",
   defShow |-> "orig", fig |-> {}]

\* a line of output: img is TRUE for a line that starts with __IMG__;
\* by is who printed it (text) or whose artists the figure holds (image)
TextLine(b) == [img |-> FALSE, by |-> {b}]
ImgLine(fig) == [img |-> TRUE, by |-> fig]

\* lines 174-188: a new StringIO each time, sys.stdout saved and redirected,
\* plt.show saved and replaced. (Lines 134-172, the imports and the seaborn
\* dataset fallbacks, touch neither stream, show primitive nor figure, and
\* their failures are swallowed at line 171.)
header(r) ==
  [r EXCEPT !.buf = <<>>,
            !.saved = IF r.sys = "orig" THEN "orig" ELSE "stale",
            !.sys = "cur",
            !.defShow = r.show,
            !.show = "capture"]

\* print(...): written to whatever sys.stdout refers to now
pyPrint(r, line) ==
  IF r.sys = "cur" THEN [r EXCEPT !.buf = Append(r.buf, line)] ELSE r

\* lines 181-187, _capture_show: savefig of the current figure, print of the
\* __IMG__ line, plt.close('all')
captureShow(r) ==
  [pyPrint(r, ImgLine(r.fig)) EXCEPT !.fig = {}]

\* one statement of the guest source, run by block b
guestOp(op, r, b) ==
  CASE op = "print" -> pyPrint(r, TextLine(b))
    [] op = "draw"  -> [r EXCEPT !.fig = r.fig \cup {b}]
    [] op = "show"  -> IF r.show = "capture" THEN captureShow(r) ELSE r
    [] OTHER        -> r

\* lines 191-195: sys.stdout = _sys_stdout; the value is _stdout_buffer.getvalue()
footer(r) == [r EXCEPT !.sys = r.saved]

\* The guest source runs from statement i without interruption up to its next
\* top-level await, its uncaught exception, or its end.
RECURSIVE execFrom(_, _, _, _)
execFrom(prog, i, r, b) ==
  IF i > Len(prog) THEN [rt |-> r, at |-> i, end |-> "done"]
  ELSE IF prog[i] = "await" THEN [rt |-> r, at |-> i + 1, end |-> "await"]
  ELSE IF prog[i] = "raise" THEN [rt |-> r, at |-> i, end |-> "raise"]
  ELSE execFrom(prog, i + 1, guestOp(prog[i], r, b), b)

(***************************************************************************)
(* usePyRunner.run, JavaScript side (lines 197-219)                        *)
(***************************************************************************)
RECURSIVE parseImages(_)
\* lines 203-206: the lines that start with __IMG__, in order
parseImages(lines) ==
  IF lines = <<>> THEN <<>>
  ELSE IF Head(lines).img THEN <<Head(lines).by>> \o parseImages(Tail(lines))
  ELSE parseImages(Tail(lines))

RECURSIVE parseText(_)
\* lines 207-209: the other lines, in order
parseText(lines) ==
  IF lines = <<>> THEN <<>>
  ELSE IF Head(lines).img THEN parseText(Tail(lines))
  ELSE <<Head(lines)>> \o parseText(Tail(lines))

\* lines 200-212: the value run returns when runPythonAsync fulfils with raw
runTry(raw) ==
  [images |-> parseImages(raw), text |-> parseText(raw), error |-> ""]

\* Mutant of runCatch: the catch parses and returns what was captured.
runCatchKeepsOutput(msg, partial) ==
  [images |-> parseImages(partial), text |-> parseText(partial), error |-> msg]

\* Mutant of runCatch: the images captured before the exception are returned.
runCatchKeepsImages(msg, partial) ==
  [images |-> parseImages(partial), text |-> <<>>, error |-> msg]

\* lines 213-218: the value run returns when runPythonAsync rejects; partial
\* is what _stdout_buffer held at that point
runCatch(msg, partial) ==
  [images |-> <<>>, text |-> <<>>, error |-> msg]

(***************************************************************************)
(* usePyRunner.ensureReady (lines 111-125) and the CodeBlock handlers      *)
(***************************************************************************)

\* lines 111-116, up to the await: the early return, or status "loading" and
\* the call of loadPyodideOnce
ensureReadyCall(b) ==
  IF pyRef[b] # 0
    THEN /\ pc' = [pc EXCEPT ![b] = IF caller'[b] = "run" THEN "ensured" ELSE "idle"]
         /\ UNCHANGED <<status, errMsg, loaderVars>>
    ELSE /\ status' = [status EXCEPT ![b] = "loading"]
         /\ errMsg' = [errMsg EXCEPT ![b] = ""]
         /\ loadPyodideOnce
         /\ pc' = [pc EXCEPT ![b] = "awaitLoad"]

\* lines 330-337: the "Load runtime" button, rendered while status is idle;
\* onClick={ensureReady}
ClickLoad(b) ==
  /\ status[b] = "idle"
  /\ pc[b] = "idle"
  /\ caller' = [caller EXCEPT ![b] = "ui"]
  /\ ensureReadyCall(b)
  /\ ensureThrew' = [ensureThrew EXCEPT ![b] = FALSE]
  /\ UNCHANGED <<rt, code, pyRef, running, out, hasRun, gpc, settled, runOutcome,
                 captured, isolated, copyVars, parseVars>>

\* lines 300-303 and 127-128: the Run button (disabled={running || status ===
\* 'loading'}), onRun up to run's await of ensureReady
ClickRun(b) ==
  /\ ~running[b]
  /\ status[b] # "loading"
  /\ pc[b] = "idle"
  /\ running' = [running EXCEPT ![b] = TRUE]
  /\ caller' = [caller EXCEPT ![b] = "run"]
  /\ ensureReadyCall(b)
  /\ ensureThrew' = [ensureThrew EXCEPT ![b] = FALSE]
  /\ runOutcome' = [runOutcome EXCEPT ![b] = "none"]
  /\ LET others == {c \in Blocks \ {b} : running[c]}
     IN isolated' = [c \in Blocks |->
                       IF c = b THEN others = {}
                       ELSE IF c \in others THEN FALSE ELSE isolated[c]]
  /\ UNCHANGED <<rt, code, pyRef, out, hasRun, gpc, settled, captured, copyVars, parseVars>>

\* Mutant of statusAfterLoad: a failed load puts the status back to "idle".
statusAfterLoadResets(ok) == IF ok THEN "ready" ELSE "idle"

\* lines 117 and 121: setStatus("ready") after the await, setStatus("error")
\* in the catch
statusAfterLoad(ok) == IF ok THEN "ready" ELSE "error"

\* lines 116-124, after the await. Fulfilled: pyRef.current is set and status
\* becomes "ready". Rejected: errMsg and status "error" are set and the
\* exception is thrown again (line 122); when the caller is run, its await
\* (line 128) is outside the try of line 199, so run rejects too, and onRun
\* (lines 302-308) has a finally and no catch.
EnsureReadyResumes(b) ==
  /\ pc[b] = "awaitLoad"
  /\ pyodidePromise \in {"fulfilled", "rejected"}
  /\ settled' = [settled EXCEPT ![b] = promiseValue]
  /\ IF pyodidePromise = "fulfilled"
       THEN /\ pyRef' = [pyRef EXCEPT ![b] = promiseValue.handle]
            /\ status' = [status EXCEPT ![b] = statusAfterLoad(TRUE)]
            /\ pc' = [pc EXCEPT ![b] = IF caller[b] = "run" THEN "ensured" ELSE "idle"]
            /\ UNCHANGED <<errMsg, ensureThrew, runOutcome, running>>
       ELSE /\ errMsg' = [errMsg EXCEPT ![b] = promiseValue.error]
            /\ status' = [status EXCEPT ![b] = statusAfterLoad(FALSE)]
            /\ ensureThrew' = [ensureThrew EXCEPT ![b] = TRUE]
            /\ pc' = [pc EXCEPT ![b] = "idle"]
            /\ IF caller[b] = "run"
                 THEN /\ runOutcome' = [runOutcome EXCEPT ![b] = "threw"]
                      /\ running' = [running EXCEPT ![b] = FALSE]
                 ELSE UNCHANGED <<runOutcome, running>>
            /\ UNCHANGED pyRef
  /\ UNCHANGED <<loaderVars, rt, code, out, hasRun, gpc, caller, captured, isolated,
                 copyVars, parseVars>>

\* lines 128-200: run resumes with the handle, sets status "running" and
\* submits header + code + footer to runPythonAsync
RunContinues(b) ==
  /\ pc[b] = "ensured"
  /\ status' = [status EXCEPT ![b] = "running"]
  /\ errMsg' = [errMsg EXCEPT ![b] = ""]
  /\ pc' = [pc EXCEPT ![b] = "exec"]
  /\ gpc' = [gpc EXCEPT ![b] = 0]
  /\ UNCHANGED <<loaderVars, rt, code, pyRef, running, out, hasRun, caller, histVars,
                 copyVars, parseVars>>

\* the block's instrumented program has run its header and not yet its footer
InFlight(b) == pc[b] = "exec" /\ gpc[b] > 0

\* Mutant of onRunReturns: the busy flag is not cleared.
onRunReturnsStaysBusy(b, result) ==
  /\ out' = [out EXCEPT ![b] = result]
  /\ hasRun' = [hasRun EXCEPT ![b] = TRUE]
  /\ UNCHANGED running

\* lines 304-308: onRun after run returned result
onRunReturns(b, result) ==
  /\ out' = [out EXCEPT ![b] = result]
  /\ hasRun' = [hasRun EXCEPT ![b] = TRUE]
  /\ running' = [running EXCEPT ![b] = FALSE]

\* One uninterrupted stretch of the block's instrumented program (the header
\* first, when it has not run yet), and, when runPythonAsync settles, the
\* rest of run (lines 200-218) and of onRun (lines 304-308).
GuestRuns(b) ==
  /\ pc[b] = "exec"
  /\ LET r0 == IF gpc[b] = 0 THEN header(rt) ELSE rt
         i0 == IF gpc[b] = 0 THEN 1 ELSE gpc[b]
         res == execFrom(code[b], i0, r0, b)
     IN /\ CASE res.end = "await" ->
                  /\ rt' = res.rt
                  /\ gpc' = [gpc EXCEPT ![b] = res.at]
                  /\ UNCHANGED <<status, errMsg, out, hasRun, running, pc, runOutcome,
                                 captured>>
             [] res.end = "done" ->
                  /\ rt' = footer(res.rt)
                  /\ gpc' = [gpc EXCEPT ![b] = 0]
                  /\ status' = [status EXCEPT ![b] = "ready"]
                  /\ onRunReturns(b, runTry(res.rt.buf))
                  /\ pc' = [pc EXCEPT ![b] = "idle"]
                  /\ runOutcome' = [runOutcome EXCEPT ![b] = "returned"]
                  /\ captured' = [captured EXCEPT ![b] = <<>>]
                  /\ UNCHANGED errMsg
             [] res.end = "raise" ->
                  /\ rt' = res.rt
                  /\ gpc' = [gpc EXCEPT ![b] = 0]
                  /\ errMsg' = [errMsg EXCEPT ![b] = "guest error"]
                  /\ status' = [status EXCEPT ![b] = "error"]
                  /\ onRunReturns(b, runCatch("guest error", res.rt.buf))
                  /\ pc' = [pc EXCEPT ![b] = "idle"]
                  /\ runOutcome' = [runOutcome EXCEPT ![b] = "returned"]
                  /\ captured' = [captured EXCEPT ![b] = res.rt.buf]
  /\ UNCHANGED <<loaderVars, code, pyRef, caller, settled, ensureThrew, isolated,
                 copyVars, parseVars>>

(***************************************************************************)
(* safeCopyText (lines 21-65) and CopyButton.handleCopy (lines 251-263)    *)
(*                                                                         *)
(* dom.textareas, dom.spans: how many <textarea> / <span> elements created *)
(* by safeCopyText are attached to document.body.  selection: "span" while *)
(* the document selection holds the range of line 58, else "none".         *)
(***************************************************************************)

\* what document.execCommand("copy") can do when it is present
ExecOutcomes == {"true", "false", "throw"}
\* window.getSelection() gives a Selection ("ok"), or null, and then line 57 throws
SelOutcomes == {"ok", "throw"}

\* line 43 / line 59: document.execCommand && document.execCommand("copy")
execCommand(e) == IF hostExecCommand THEN e ELSE "absent"

\* lines 32-48: hidden textarea + execCommand('copy'). The textarea is
\* appended (line 40) before the command and removed (line 44) after it, so
\* a command that throws skips the removal. The catch of line 46 swallows the
\* exception: nothing escapes.
legacyStrategy(d, e) ==
  LET r == execCommand(e)
  IN [dom |-> IF r = "throw" THEN [d EXCEPT !.textareas = d.textareas + 1] ELSE d,
      ok |-> r = "true",
      escapes |-> FALSE,
      att |-> [s |-> "legacy", r |-> r]]

\* Mutant of selectionStrategy: no try/catch around lines 51-62.
selectionStrategyNoCatch(d, sel, s, e) ==
  LET r == IF s = "throw" THEN "selection api threw" ELSE execCommand(e)
  IN [dom |-> IF r \in {"throw", "selection api threw"}
                THEN [d EXCEPT !.spans = d.spans + 1] ELSE d,
      sel |-> IF r = "selection api threw" THEN sel
              ELSE IF r = "throw" THEN "span" ELSE "none",
      ok |-> r = "true",
      escapes |-> r \in {"throw", "selection api threw"},
      att |-> [s |-> "selection", r |-> r]]

\* lines 50-63: manual selection. The span is appended at line 55; line 57 is
\* the first use of the Selection; the command is line 59; the selection is
\* cleared and the span removed at lines 60-61, which a throw skips. The
\* catch of line 63 swallows the exception: nothing escapes.
selectionStrategy(d, sel, s, e) ==
  LET r == IF s = "throw" THEN "selection api threw" ELSE execCommand(e)
  IN [dom |-> IF r \in {"throw", "selection api threw"}
                THEN [d EXCEPT !.spans = d.spans + 1] ELSE d,
      sel |-> IF r = "selection api threw" THEN sel
              ELSE IF r = "throw" THEN "span" ELSE "none",
      ok |-> r = "true",
      escapes |-> FALSE,
      att |-> [s |-> "selection", r |-> r]]

\* line 64
blockedResult == [ok |-> FALSE, method |-> "blocked"]

\* lines 31-64: everything after the primary API, which runs without an await
fallbacks(d, sel, e2, s3, e3) ==
  LET l == legacyStrategy(d, e2)
      m == selectionStrategy(l.dom, sel, s3, e3)
  IN IF l.escapes
       THEN [dom |-> l.dom, sel |-> sel, att |-> <<l.att>>, threw |-> TRUE,
             res |-> blockedResult]
     ELSE IF l.ok
       THEN [dom |-> l.dom, sel |-> sel, att |-> <<l.att>>, threw |-> FALSE,
             res |-> [ok |-> TRUE, method |-> "execCommand"]]
       ELSE [dom |-> m.dom, sel |-> m.sel, att |-> <<l.att, m.att>>,
             threw |-> m.escapes,
             res |-> IF m.ok THEN [ok |-> TRUE, method |-> "selection"]
                     ELSE blockedResult]

\* Mutant of primaryUsable: the capability test of line 23 is missing.
primaryUsableAlways == TRUE

\* line 23: the primary API is tried only when the host exposes it
primaryUsable == hostClipboard

\* the fallbacks run, with the outcomes the host gives, after the attempts in before
runFallbacks(b, before) ==
  \E e2 \in ExecOutcomes, s3 \in SelOutcomes, e3 \in ExecOutcomes :
    LET f == fallbacks(dom, selection, e2, s3, e3)
    IN /\ dom' = f.dom
       /\ selection' = f.sel
       /\ attempts' = [attempts EXCEPT ![b] = before \o f.att]
       /\ copyRes' = [copyRes EXCEPT ![b] = f.res]
       /\ copyThrew' = [copyThrew EXCEPT ![b] = f.threw]
       /\ copyPc' = [copyPc EXCEPT ![b] = "returned"]

\* lines 251-254 and 21-25: the Copy button (disabled={busy}); handleCopy calls
\* safeCopyText, which either awaits navigator.clipboard.writeText or goes
\* straight to the fallbacks
ClickCopy(b) ==
  /\ ~busy[b]
  /\ copyPc[b] = "idle"
  /\ dom.textareas + dom.spans < MaxLeaked
  /\ busy' = [busy EXCEPT ![b] = TRUE]
  /\ IF primaryUsable
       THEN /\ copyPc' = [copyPc EXCEPT ![b] = "primary"]
            /\ attempts' = [attempts EXCEPT ![b] = <<>>]
            /\ copyThrew' = [copyThrew EXCEPT ![b] = FALSE]
            /\ UNCHANGED <<dom, selection, copyRes>>
       ELSE runFallbacks(b, <<>>)
  /\ UNCHANGED <<loaderVars, rt, blockVars, histVars, parseVars, hostClipboard, hostExecCommand,
                 btnState, timer>>

\* lines 25-30: writeText settles; fulfilled returns at line 26, rejected
\* falls through to the fallbacks
PrimarySettles(b, ok) ==
  /\ copyPc[b] = "primary"
  /\ IF ok
       THEN /\ attempts' = [attempts EXCEPT ![b] = <<[s |-> "primary", r |-> "true"]>>]
            /\ copyRes' = [copyRes EXCEPT ![b] = [ok |-> TRUE, method |-> "navigator.clipboard"]]
            /\ copyPc' = [copyPc EXCEPT ![b] = "returned"]
            /\ UNCHANGED <<dom, selection, copyThrew>>
       ELSE runFallbacks(b, <<[s |-> "primary", r |-> "rejected"]>>)
  /\ UNCHANGED <<loaderVars, rt, blockVars, histVars, parseVars, hostClipboard, hostExecCommand,
                 btnState, busy, timer>>

\* lines 255-256: the state handleCopy sets from safeCopyText's result
copyState(res) ==
  IF res.ok THEN [ok |-> TRUE, method |-> res.method, error |-> ""]
  ELSE [ok |-> FALSE, method |-> res.method, error |-> "Clipboard blocked by policy"]

\* lines 254-262: handleCopy after the await; its catch (lines 258-259) takes
\* what safeCopyText throws, and then sets no timer
HandleCopyResumes(b) ==
  /\ copyPc[b] = "returned"
  /\ IF copyThrew[b]
       THEN /\ btnState' = [btnState EXCEPT
                              ![b] = [ok |-> FALSE, method |-> "", error |-> "exception"]]
            /\ UNCHANGED timer
       ELSE /\ btnState' = [btnState EXCEPT ![b] = copyState(copyRes[b])]
            /\ timer' = [timer EXCEPT ![b] = TRUE]
  /\ busy' = [busy EXCEPT ![b] = FALSE]
  /\ copyPc' = [copyPc EXCEPT ![b] = "idle"]
  /\ UNCHANGED <<loaderVars, rt, blockVars, histVars, parseVars, hostClipboard, hostExecCommand,
                 dom, selection, attempts, copyRes, copyThrew>>

\* line 257: setTimeout(() => setState((s) => ({ ...s, ok: false })), 1200)
TimerFires(b) ==
  /\ timer[b]
  /\ btnState' = [btnState EXCEPT ![b].ok = FALSE]
  /\ timer' = [timer EXCEPT ![b] = FALSE]
  /\ UNCHANGED <<loaderVars, rt, blockVars, histVars, parseVars, hostClipboard, hostExecCommand,
                 dom, selection, copyPc, attempts, copyRes, copyThrew, busy>>

(***************************************************************************)
(* One run, character by character: what the guest source writes to        *)
(* _stdout_buffer (lines 174-188) and what run makes of it (lines 200-212). *)
(* A string is a sequence of one-character strings.                        *)
(***************************************************************************)

\* line 186 and line 204: '__IMG__'
Sentinel == <<"_", "_", "I", "M", "G", "_", "_">>

\* line 206: the prefix of every image artifact, kept as one element
DataUrl == "data:image/png;base64,"

\* characters String.prototype.trim removes
Whitespace == {" ", "\t", "\r"}

\* line 185: the base64 text of the k-th figure saved; one character stands
\* for it, a different one for each figure
Payload(k) == <<<<"1", "2", "3", "4", "5", "6", "7", "8", "9">>[k]>>

\* what the guest source passes to print(...) or sys.stdout.write(...)
GuestTexts == {<<"a">>, <<"b">>, <<>>, <<" ">>, Sentinel}

\* the statements of a guest source: print(t), print(t, end="") /
\* sys.stdout.write(t), and plt.show()
GuestOps ==
  [k : {"print", "write"}, t : GuestTexts] \cup {[k |-> "show", t |-> <<>>]}

\* how many plt.show() calls a source makes
RECURSIVE shows(_)
shows(src) ==
  IF src = <<>> THEN 0
  ELSE (IF Head(src).k = "show" THEN 1 ELSE 0) + shows(Tail(src))

\* the characters a statement appends to the buffer sys.stdout is redirected
\* to (line 177); for plt.show(), line 186: print('__IMG__' + b64)
written(op, before) ==
  CASE op.k = "print" -> op.t \o <<"\n">>
    [] op.k = "write" -> op.t
    [] op.k = "show"  -> Sentinel \o Payload(shows(before) + 1) \o <<"\n">>

\* the first index at which p occurs in s, 0 if none (String.prototype.indexOf + 1)
indexOf(s, p) ==
  LET hits == {i \in 1..(Len(s) - Len(p) + 1) : SubSeq(s, i, i + Len(p) - 1) = p}
  IN IF hits = {} THEN 0 ELSE CHOOSE i \in hits : \A j \in hits : i <= j

\* line 202: String(out).split(/\n/)
RECURSIVE splitLines(_)
splitLines(s) ==
  LET i == indexOf(s, <<"\n">>)
  IN IF i = 0 THEN <<s>>
     ELSE <<SubSeq(s, 1, i - 1)>> \o splitLines(SubSeq(s, i + 1, Len(s)))

\* line 204: line.startsWith("__IMG__")
startsWith(line, p) ==
  Len(line) >= Len(p) /\ SubSeq(line, 1, Len(p)) = p

\* Mutant of stripSentinel: every occurrence is removed (a /__IMG__/g pattern).
RECURSIVE stripSentinelEverywhere(_)
stripSentinelEverywhere(line) ==
  LET i == indexOf(line, Sentinel)
  IN IF i = 0 THEN line
     ELSE SubSeq(line, 1, i - 1)
            \o stripSentinelEverywhere(SubSeq(line, i + Len(Sentinel), Len(line)))

\* line 205: line.replace("__IMG__", ""), which removes the first occurrence
stripSentinel(line) ==
  LET i == indexOf(line, Sentinel)
  IN IF i = 0 THEN line
     ELSE SubSeq(line, 1, i - 1) \o SubSeq(line, i + Len(Sentinel), Len(line))

\* Mutant of isBlank: the length is tested without trim().
isBlankUntrimmed(line) == Len(line) = 0

\* line 207: !line.trim().length
isBlank(line) ==
  LET solid == {i \in 1..Len(line) : line[i] \notin Whitespace}
  IN solid = {}

\* lines 203-210: the loop over the lines
RECURSIVE parseLines(_, _)
parseLines(lines, acc) ==
  IF lines = <<>> THEN acc
  ELSE LET line == Head(lines)
       IN parseLines(Tail(lines),
            IF startsWith(line, Sentinel)
              THEN [acc EXCEPT !.images = Append(acc.images, <<DataUrl>> \o stripSentinel(line))]
            ELSE IF ~isBlank(line)
              THEN [acc EXCEPT !.text = acc.text \o line \o <<"\n">>]
            ELSE acc)

\* lines 197-210: images = [], text = "", then the loop
parseRaw(s) == parseLines(splitLines(s), [images |-> <<>>, text |-> <<>>])

\* One statement of the guest source runs and writes to the buffer.
GuestWrites(op) ==
  /\ ppc = "writing"
  /\ Len(gsrc) < MaxOps
  /\ gsrc' = Append(gsrc, op)
  /\ stdoutBuffer' = stdoutBuffer \o written(op, gsrc)
  /\ UNCHANGED <<parsed, ppc, loaderVars, rt, blockVars, histVars, copyVars>>

\* lines 194 and 200-210: the footer yields the buffer and run parses it.
ParsesOutput ==
  /\ ppc = "writing"
  /\ parsed' = parseRaw(stdoutBuffer)
  /\ ppc' = "parsed"
  /\ UNCHANGED <<gsrc, stdoutBuffer, loaderVars, rt, blockVars, histVars, copyVars>>

(***************************************************************************)
(* Specifications                                                          *)
(***************************************************************************)
\* nothing loaded, an untouched runtime, idle code blocks
RunnerInit ==
  /\ pyodidePromise = "null"
  /\ promiseValue = NoValue
  /\ loaderPc = "none"
  /\ hasLoadPyodide \in BOOLEAN
  /\ fetchCount = 0
  /\ initCount = 0
  /\ rt = InitRuntime
  /\ code \in [Blocks -> Programs]
  /\ status = [b \in Blocks |-> "idle"]
  /\ errMsg = [b \in Blocks |-> ""]
  /\ pyRef = [b \in Blocks |-> 0]
  /\ running = [b \in Blocks |-> FALSE]
  /\ out = [b \in Blocks |-> NoResult]
  /\ hasRun = [b \in Blocks |-> FALSE]
  /\ pc = [b \in Blocks |-> "idle"]
  /\ gpc = [b \in Blocks |-> 0]
  /\ caller = [b \in Blocks |-> "ui"]
  /\ settled = [b \in Blocks |-> NoValue]
  /\ ensureThrew = [b \in Blocks |-> FALSE]
  /\ runOutcome = [b \in Blocks |-> "none"]
  /\ captured = [b \in Blocks |-> <<>>]
  /\ isolated = [b \in Blocks |-> TRUE]

\* the host's clipboard capabilities, an empty document, idle Copy buttons
CopyInit ==
  /\ hostClipboard \in BOOLEAN
  /\ hostExecCommand \in BOOLEAN
  /\ dom = [textareas |-> 0, spans |-> 0]
  /\ selection = "none"
  /\ copyPc = [b \in Buttons |-> "idle"]
  /\ attempts = [b \in Buttons |-> <<>>]
  /\ copyRes = [b \in Buttons |-> blockedResult]
  /\ copyThrew = [b \in Buttons |-> FALSE]
  /\ btnState = [b \in Buttons |-> [ok |-> FALSE, method |-> "", error |-> ""]]
  /\ busy = [b \in Buttons |-> FALSE]
  /\ timer = [b \in Buttons |-> FALSE]

\* an empty buffer, nothing parsed
ParseInit ==
  /\ gsrc = <<>>
  /\ stdoutBuffer = <<>>
  /\ parsed = [images |-> <<>>, text |-> <<>>]
  /\ ppc = "writing"

\* the loader and the code runner read nothing of the clipboard's host: one
\* host is followed
Init ==
  /\ RunnerInit
  /\ CopyInit
  /\ ParseInit
  /\ hostClipboard
  /\ hostExecCommand

\* the loader and the code runner
Next ==
  \/ \E ok \in BOOLEAN : FetchSettles(ok)
  \/ \E ok \in BOOLEAN : InitSettles(ok)
  \/ \E ok \in BOOLEAN : PackagesSettle(ok)
  \/ \E ok \in BOOLEAN : SeabornSettles(ok)
  \/ \E ok \in BOOLEAN : InstallSettles(ok)
  \/ \E b \in Blocks : ClickLoad(b)
  \/ \E b \in Blocks : ClickRun(b)
  \/ \E b \in Blocks : EnsureReadyResumes(b)
  \/ \E b \in Blocks : RunContinues(b)
  \/ \E b \in Blocks : GuestRuns(b)

Spec == Init /\ [][Next]_vars

\* The same program, with every step that is not a click taken eventually:
\* each await of the initialization settles, each continuation of an async
\* function is run by the event loop once its promise has settled, and the
\* guest source runs on until runPythonAsync settles. Clicks may never come.
Fairness ==
  /\ WF_vars(\E ok \in BOOLEAN : FetchSettles(ok))
  /\ WF_vars(\E ok \in BOOLEAN : InitSettles(ok))
  /\ WF_vars(\E ok \in BOOLEAN : PackagesSettle(ok))
  /\ WF_vars(\E ok \in BOOLEAN : SeabornSettles(ok))
  /\ WF_vars(\E ok \in BOOLEAN : InstallSettles(ok))
  /\ \A b \in Blocks :
       /\ WF_vars(EnsureReadyResumes(b))
       /\ WF_vars(RunContinues(b))
       /\ WF_vars(GuestRuns(b))

SpecLive == Init /\ [][Next]_vars /\ Fairness

\* the clipboard utility
NextCopy ==
  \/ \E b \in Buttons : ClickCopy(b)
  \/ \E b \in Buttons, ok \in BOOLEAN : PrimarySettles(b, ok)
  \/ \E b \in Buttons : HandleCopyResumes(b)
  \/ \E b \in Buttons : TimerFires(b)

\* safeCopyText reads nothing of the loader or the code blocks: one state of
\* those is followed
InitCopy ==
  /\ RunnerInit
  /\ CopyInit
  /\ ParseInit
  /\ hasLoadPyodide
  /\ code = [b \in Blocks |-> <<"print", "draw", "show">>]

SpecCopy == InitCopy /\ [][NextCopy]_vars

\* one run, character by character
NextParse ==
  \/ \E op \in GuestOps : GuestWrites(op)
  \/ ParsesOutput

\* the loader has succeeded and the run is alone on the runtime: one state of
\* the loader, the code blocks and the clipboard is followed
InitParse ==
  /\ Init
  /\ hasLoadPyodide
  /\ code = [b \in Blocks |-> <<"print", "draw", "show">>]

SpecParse == InitParse /\ [][NextParse]_vars

(***************************************************************************)
(* Properties                                                              *)
(***************************************************************************)

\* every call that has settled, settled with the same value
AllSettledSame ==
  \A b1, b2 \in Blocks :
    (settled[b1] # NoValue /\ settled[b2] # NoValue) => settled[b1] = settled[b2]

\* C1: however many loadPyodideOnce calls are made, from whichever code
\* blocks and in whatever order with respect to the settling of the first, the
\* bootstrap script is appended at most once, window.loadPyodide is called at
\* most once, and all the calls settle with the same handle or the same error.
C1_SingleInitialization ==
  /\ fetchCount <= 1
  /\ initCount <= 1
  /\ AllSettledSame
  /\ \A b \in Blocks : settled[b] # NoValue => settled[b] = promiseValue

\* every code block's call has settled, after one fetch and one initialisation
C1_Witness ==
  /\ \A b \in Blocks : settled[b] # NoValue
  /\ fetchCount = 1
  /\ initCount = 1

\* C2 (as claimed): no call of run rejects to its caller.
C2_RunNeverThrows ==
  \A b \in Blocks : runOutcome[b] # "threw"

\* the block's last run returned after its guest source raised with text in
\* the buffer
RaisedAfterPrinting(b) ==
  /\ runOutcome[b] = "returned"
  /\ parseText(captured[b]) # <<>>

C4_AtMostOneInFlight ==
  Cardinality({b \in Blocks : InFlight(b)}) <= 1

\* C5 (as claimed): a run called after every other run had returned, and
\* returning before any other is called, returns only text its
\* own source printed and images holding only what its own source drew.
C5_NoBleedOver ==
  \A b \in Blocks :
    (runOutcome[b] = "returned" /\ isolated[b]) =>
      /\ \A i \in 1..Len(out[b].text) : out[b].text[i].by = {b}
      /\ \A i \in 1..Len(out[b].images) : out[b].images[i] \subseteq {b}

\* C6 (as claimed): once a run has returned and no program is in flight,
\* sys.stdout and plt.show are the originals.
C6_InterceptionReversed ==
  ((\E b \in Blocks : runOutcome[b] = "returned") /\ (\A b \in Blocks : ~InFlight(b)))
    => (rt.sys = "orig" /\ rt.show = "orig")

\* the order of the strategies
Rank(s) == CASE s = "primary" -> 1 [] s = "legacy" -> 2 [] s = "selection" -> 3

\* the name the result gives a strategy (lines 26, 45, 62)
MethodOf(s) ==
  CASE s = "primary" -> "navigator.clipboard"
    [] s = "legacy" -> "execCommand"
    [] s = "selection" -> "selection"

\* C7: the strategies are attempted in the order primary, legacy, selection,
\* each one only after every earlier one was unavailable or did not succeed;
\* the primary API only when the host exposes it; and after a success nothing
\* more is attempted and the result names the strategy that succeeded.
C7_OrderedFallback ==
  \A b \in Buttons :
    LET a == attempts[b]
    IN /\ \A i \in 1..Len(a) :
            /\ Rank(a[i].s) = i + (IF hostClipboard THEN 0 ELSE 1)
            /\ i < Len(a) => a[i].r # "true"
            /\ a[i].s = "primary" => hostClipboard
       /\ (copyPc[b] = "returned" /\ a[Len(a)].r = "true") =>
            copyRes[b] = [ok |-> TRUE, method |-> MethodOf(a[Len(a)].s)]
       /\ (copyPc[b] = "returned" /\ a[Len(a)].r # "true") =>
            (Len(a) = (IF hostClipboard THEN 3 ELSE 2) /\ ~copyRes[b].ok)

\* the primary API rejected, the legacy command failed, the selection succeeded
C7_Witness ==
  \E b \in Buttons :
    /\ copyPc[b] = "returned"
    /\ Len(attempts[b]) = 3
    /\ attempts[b][1] = [s |-> "primary", r |-> "rejected"]
    /\ attempts[b][3] = [s |-> "selection", r |-> "true"]
    /\ copyRes[b] = [ok |-> TRUE, method |-> "selection"]

\* C8 (as claimed): when safeCopyText has returned, no textarea or span it
\* created is attached to the document and the selection is cleared.
C8_NoScaffoldingLeft ==
  \A b \in Buttons :
    copyPc[b] = "returned" =>
      (dom.textareas = 0 /\ dom.spans = 0 /\ selection = "none")

\* every strategy the last copy could try was tried and none succeeded
AllFailed(b) ==
  /\ Len(attempts[b]) = (IF hostClipboard THEN 3 ELSE 2)
  /\ \A i \in 1..Len(attempts[b]) : attempts[b][i].r # "true"

\* C9: when every strategy fails or throws, safeCopyText does not throw and
\* returns ok false with the method "blocked" (the code's name for `none`),
\* and handleCopy then shows "Clipboard blocked by policy".
C9_AllFailedIsData ==
  \A b \in Buttons :
    /\ (copyPc[b] = "returned" /\ AllFailed(b)) =>
         (~copyThrew[b] /\ copyRes[b] = [ok |-> FALSE, method |-> "blocked"])
    /\ (copyPc[b] = "idle" /\ AllFailed(b)) =>
         btnState[b] = [ok |-> FALSE, method |-> "blocked",
                        error |-> "Clipboard blocked by policy"]

\* the primary API rejected, both commands threw, and handleCopy has finished
C9_Witness ==
  \E b \in Buttons :
    /\ copyPc[b] = "idle"
    /\ AllFailed(b)
    /\ hostClipboard
    /\ attempts[b][2].r = "throw"
    /\ attempts[b][3].r = "throw"
    /\ btnState[b].error = "Clipboard blocked by policy"

\* C10 (as claimed): when the load started by the Load runtime button fails,
\* the status is "error" with a message and ensureReady does not reject.
C10_LoadFailureIsData ==
  \A b \in Blocks :
    (caller[b] = "ui" /\ pc[b] = "idle" /\ settled[b].error # "") =>
      (status[b] = "error" /\ errMsg[b] # "" /\ ~ensureThrew[b])

(***************************************************************************)
(* Output parsing (C11, C12, C13), stated over the characters of the       *)
(* buffer and checked under SpecParse.                                     *)
(***************************************************************************)

\* the positions of the line breaks of the buffer, and where its lines begin
Breaks == {i \in 1..Len(stdoutBuffer) : stdoutBuffer[i] = "\n"}

LineStarts == {1} \cup {i + 1 : i \in Breaks}

\* the line that begins at st, without its line break
LineAt(st) ==
  LET later == {i \in Breaks : i >= st}
      last  == IF later = {} THEN Len(stdoutBuffer)
               ELSE (CHOOSE i \in later : \A j \in later : i <= j) - 1
  IN SubSeq(stdoutBuffer, st, last)

\* the line that begins at st begins with the sentinel prefix
IsImageLine(st) ==
  /\ st + Len(Sentinel) - 1 <= Len(stdoutBuffer)
  /\ SubSeq(stdoutBuffer, st, st + Len(Sentinel) - 1) = Sentinel

ImageStarts == {st \in LineStarts : IsImageLine(st)}

\* the other lines that hold a character that is not white space
TextStarts ==
  {st \in LineStarts :
     /\ ~IsImageLine(st)
     /\ \E i \in 1..Len(LineAt(st)) : LineAt(st)[i] \notin Whitespace}

\* the k-th smallest element of S
Nth(S, k) == CHOOSE st \in S : Cardinality({t \in S : t < st}) = k - 1

\* s holds p somewhere
Contains(s, p) ==
  \E i \in 1..(Len(s) - Len(p) + 1) : SubSeq(s, i, i + Len(p) - 1) = p

\* the guest source itself never prints or writes the sentinel
OwnSentinelFree ==
  \A i \in 1..Len(gsrc) : ~Contains(gsrc[i].t, Sentinel)

\* C11 (as claimed): for every guest source, k display calls give k images,
\* the k-th image carrying the k-th figure, and no text of the result holds
\* the sentinel. Stated for sources that never write the sentinel themselves.
C11_OutputOrdering ==
  (ppc = "parsed" /\ OwnSentinelFree) =>
    /\ Len(parsed.images) = shows(gsrc)
    /\ \A k \in 1..Len(parsed.images) :
         parsed.images[k] = <<DataUrl>> \o Payload(k)
    /\ ~Contains(parsed.text, Sentinel)

\* C12: N lines of the buffer that begin with the sentinel prefix parse to N
\* images in the same order, the k-th being the data-URL prefix followed by
\* exactly the rest of the k-th such line, whatever that rest is.
C12_ImageLinesRoundTrip ==
  ppc = "parsed" =>
    /\ Len(parsed.images) = Cardinality(ImageStarts)
    /\ \A k \in 1..Cardinality(ImageStarts) :
         LET line == LineAt(Nth(ImageStarts, k))
         IN parsed.images[k]
              = <<DataUrl>> \o SubSeq(line, Len(Sentinel) + 1, Len(line))

\* two image lines parsed in order, one of them with a payload that is no
\* base64 text: it holds the sentinel again
C12_Witness ==
  /\ ppc = "parsed"
  /\ Len(parsed.images) = 2
  /\ parsed.images[1] = <<DataUrl>> \o Sentinel
  /\ parsed.images[2] = <<DataUrl>> \o Payload(1)

\* the text the claim expects from the first k text lines
RECURSIVE TextUpTo(_)
TextUpTo(k) ==
  IF k = 0 THEN <<>>
  ELSE TextUpTo(k - 1) \o LineAt(Nth(TextStarts, k)) \o <<"\n">>

\* C13: the parsed text is the concatenation, in order, of every line that
\* is not blank and does not begin with the sentinel prefix, each followed by
\* one line break; empty and white-space-only lines contribute nothing.
C13_TextIsNonBlankLines ==
  ppc = "parsed" => parsed.text = TextUpTo(Cardinality(TextStarts))

\* "a", an empty line, a line of one space and "b" parse to "a\nb\n"
C13_Witness ==
  /\ ppc = "parsed"
  /\ stdoutBuffer = <<"a", "\n", "\n", " ", "\n", "b", "\n">>
  /\ parsed.text = <<"a", "\n", "b", "\n">>

(***************************************************************************)
(* The load state of a runner (C14).                                       *)
(***************************************************************************)

\* C14: in every step, a runner whose status is "idle" stays idle or becomes
\* "loading", and a runner whose status is "loading" stays loading or becomes
\* "ready" or "error".
C14_LoadTransitions ==
  [][\A b \in Blocks :
       /\ status[b] = "idle" => status'[b] \in {"idle", "loading"}
       /\ status[b] = "loading" => status'[b] \in {"loading", "ready", "error"}]_vars

\* one runner has left "loading" for "error" while another, started by its
\* Run button, is still loading
C14_Witness ==
  \E b, c \in Blocks :
    /\ status[b] = "error" /\ pc[b] = "idle" /\ ensureThrew[b]
    /\ status[c] = "loading" /\ caller[c] = "run"

(***************************************************************************)
(* A guest source that raises (C15).                                       *)
(***************************************************************************)

\* the block's source reaches a statement that raises
Raises(b) == \E i \in 1..Len(code[b]) : code[b][i] = "raise"

\* C15: when the guest source raises, run returns a result whose error is
\* the exception's message and whose text and images are empty, and the
\* runner shows the same message with status "error".
C15_RaiseIsRecorded ==
  \A b \in Blocks :
    (runOutcome[b] = "returned" /\ Raises(b)) =>
      /\ out[b] = [images |-> <<>>, text |-> <<>>, error |-> "guest error"]
      /\ errMsg[b] = out[b].error
      /\ status[b] = "error"

\* a source that printed and displayed a figure before it raised has returned
C15_Witness ==
  \E b \in Blocks :
    /\ runOutcome[b] = "returned"
    /\ Raises(b)
    /\ parseImages(captured[b]) # <<>>
    /\ out[b].images = <<>>
    /\ out[b].error = "guest error"

(***************************************************************************)
(* The shared initialization after a failure (C16) and its order (C17).    *)
(***************************************************************************)

\* C16: once the shared initialization has failed, no step starts a fetch or
\* an initialization or changes the memoized failure, and every call that
\* settles from then on settles with that same failure.
C16_FailureStaysMemoized ==
  [][pyodidePromise = "rejected" =>
       /\ pyodidePromise' = "rejected"
       /\ promiseValue' = promiseValue
       /\ fetchCount' = fetchCount
       /\ initCount' = initCount
       /\ loaderPc' = loaderPc
       /\ \A b \in Blocks :
            (pc[b] = "awaitLoad" /\ pc'[b] # "awaitLoad") =>
              (settled'[b] = promiseValue /\ errMsg'[b] = promiseValue.error)]_vars

\* after the initialization failed and one block saw the failure, the other
\* block, whose earlier call had failed too, has called again and waits on
\* the memoized promise; one initialization was started in all
C16_Witness ==
  \E b, c \in Blocks :
    /\ pyodidePromise = "rejected"
    /\ pc[b] = "awaitLoad" /\ settled[b] = promiseValue
    /\ pc[c] = "idle" /\ settled[c] = promiseValue
    /\ fetchCount + initCount = 1

\* C17: the steps of the initialization start in a fixed order. The fetch
\* starts only when window.loadPyodide is missing; the runtime is initialized
\* at once when it is present and otherwise only after the fetch succeeded;
\* the required packages load only after the initialization succeeded; the
\* optional import only after the packages loaded; the install only after the
\* optional import failed; and the promise fulfils only after the import or
\* the install succeeded.
C17_FixedOrder ==
  [][loaderPc' # loaderPc =>
       \/ /\ loaderPc' = "fetch"
          /\ loaderPc = "none" /\ ~hasLoadPyodide
       \/ /\ loaderPc' = "init"
          /\ \/ loaderPc = "none" /\ hasLoadPyodide
             \/ loaderPc = "fetch" /\ hasLoadPyodide'
       \/ /\ loaderPc' = "packages"
          /\ loaderPc = "init"
       \/ /\ loaderPc' = "seaborn"
          /\ loaderPc = "packages"
       \/ /\ loaderPc' = "install"
          /\ loaderPc = "seaborn" /\ pyodidePromise' = "pending"
       \/ /\ loaderPc' = "settled"
          /\ \/ pyodidePromise' = "rejected"
                  /\ loaderPc \in {"fetch", "init", "packages", "install"}
             \/ pyodidePromise' = "fulfilled"
                  /\ loaderPc \in {"seaborn", "install"}]_vars

\* the longest path so far: the script was fetched, the runtime initialized,
\* the packages loaded, the optional import failed and the install is
\* running, with a block waiting for it
C17_Witness ==
  /\ loaderPc = "install"
  /\ pyodidePromise = "pending"
  /\ hasLoadPyodide
  /\ fetchCount = 1
  /\ initCount = 1
  /\ \E b \in Blocks : status[b] = "loading"

(***************************************************************************)
(* Every run ends (C18), checked under SpecLive.                           *)
(***************************************************************************)

\* C18: provided the initialization and the guest execution settle, every
\* click on Run is followed by a state in which the block's busy flag is
\* cleared and its status is "ready" or "error".
C18_RunEnds ==
  \A b \in Blocks :
    running[b] ~> (~running[b] /\ status[b] \in {"ready", "error"})

\* a run whose load failed has ended: run rejected, the finally of onRun
\* cleared the busy flag, and the status is "error"
C18_Witness ==
  \E b \in Blocks :
    /\ runOutcome[b] = "threw"
    /\ ~running[b]
    /\ status[b] = "error"
    /\ pc[b] = "idle"

====
